---- MODULE Spec2Model ----
(***************************************************************************)
(* A model of the drillhole ingestion engine of geoh5py:                   *)
(*   geoh5py/shared/utils.py      match_values, merge_arrays               *)
(*   geoh5py/objects/drillhole.py Drillhole.add_data, validate_log_data,   *)
(*                                validate_interval_data, desurvey,        *)
(*                                add_vertices, sort_depths and setters    *)
(*                                                                         *)
(* Conventions.  numpy arrays are sequences; positions are 1-based, so a   *)
(* python index i is position i + 1, and a vertex index stored in cells is *)
(* a position of vertices.  Depths are integers in units of half the       *)
(* default collocation distance (1e-2 is 2 units).  NaN is one value that  *)
(* sorts last, is within tolerance of nothing and fails every comparison,  *)
(* as the IEEE not-a-number does in numpy.  None is the empty sequence for *)
(* collar and surveys; a Data entity without values has has_values FALSE.  *)
(***************************************************************************)
EXTENDS Integers, Sequences, FiniteSets, TLC

\* ------------------------------------------------------------------ bounds
\* Depths offered by a caller are 0..MaxDepth.
MaxDepth == 4
\* Budget of a run: every named batch of an add_data call costs one plus the
\* number of its samples.
MaxCost == 6
\* Samples of one named batch.
MaxBatch == 2
\* Budget of a run of log batches only.
MaxLogCost == 5
\* Budget of a short run of log, interval and object batches.
MaxMixedCost == 4
\* Budget of a run of add_data, setter and desurvey calls, a desurvey call
\* costing one; a desurvey call asks for at most MaxQueried depths.
MaxQueryCost == 3
MaxQueried == 2
\* Budget of a run of setter calls and commits, one each.
MaxSetterCost == 3
\* Arrays handed to match_values and merge_arrays hold values 0..MaxValue.
MaxValue == 3
\* Lengths of the reference and the query array of match_values.
MaxRef == 3
MaxQuery == 1
\* Lengths of the head and the tail array of merge_arrays.
MaxHead == 2
MaxTail == 2

\* ------------------------------------------------------- program constants
\* Drillhole._default_collocation_distance = 1e-2, in depth units.
DefaultCollocationDistance == 2
\* np.nan
NaN == 1000

\* ------------------------------------------------------------ numpy basics
Abs(x) == IF x < 0 THEN -x ELSE x

Min(a, b) == IF a < b THEN a ELSE b

Max(a, b) == IF a > b THEN a ELSE b

Range(s) == {s[k] : k \in DOMAIN s}

\* np.ones(n) * np.nan
nans(n) == [k \in 1..n |-> NaN]

\* np.abs(a - b) < collocation_distance, false when either side is NaN
within(a, b, collocation_distance) ==
    /\ a # NaN
    /\ b # NaN
    /\ Abs(a - b) < collocation_distance

\* np.argsort(v): the positions of v in ascending order of value, NaN last.
\* Arrays of fewer than 17 elements are insertion-sorted, so ties keep their
\* order.
argsort(v) ==
    LET rank(i) == Cardinality({k \in DOMAIN v : v[k] < v[i] \/ (v[k] = v[i] /\ k < i)})
    IN  [r \in 1..Len(v) |-> CHOOSE i \in DOMAIN v : rank(i) = r - 1]

\* v[idx]: fancy indexing by a sequence of positions
take(v, idx) == [k \in 1..Len(idx) |-> v[idx[k]]]

\* np.searchsorted(a, x, side): the python insertion index of x in sorted a
searchsorted(a, x, side) ==
    IF side = "right"
    THEN Cardinality({k \in DOMAIN a : a[k] # NaN /\ a[k] <= x})
    ELSE Cardinality({k \in DOMAIN a : a[k] # NaN /\ a[k] < x})

\* np.delete(arr, idx): arr without the positions in the set idx
np_delete(arr, idx) ==
    LET f[k \in 0..Len(arr)] ==
            IF k = 0 THEN <<>>
            ELSE IF k \in idx THEN f[k - 1] ELSE Append(f[k - 1], arr[k])
    IN  f[Len(arr)]

\* arr[idx] = vals for sequences idx, vals: on a repeated position the last
\* assignment wins
assign(arr, idx, vals) ==
    [k \in 1..Len(arr) |->
        IF \E p \in DOMAIN idx : idx[p] = k
        THEN vals[CHOOSE p \in DOMAIN idx :
                    /\ idx[p] = k
                    /\ \A q \in DOMAIN idx : idx[q] = k => q <= p]
        ELSE arr[k]]

\* np.where(cond)[0]: the positions where the boolean array cond holds,
\* ascending
where(cond) ==
    LET f[k \in 0..Len(cond)] ==
            IF k = 0 THEN <<>>
            ELSE IF cond[k] THEN Append(f[k - 1], k) ELSE f[k - 1]
    IN  f[Len(cond)]

\* np.unique(vals): the distinct values ascending
np_unique(vals) ==
    LET S == Range(vals)
        f[k \in 0..Cardinality(S)] ==
            IF k = 0 THEN <<>>
            ELSE Append(f[k - 1],
                        CHOOSE x \in S : Cardinality({y \in S : y < x}) = k - 1)
    IN  f[Cardinality(S)]

\* the return_inverse of np.unique: for each entry its position in np_unique
unique_inverse(vals) ==
    LET u == np_unique(vals)
    IN  [k \in 1..Len(vals) |-> CHOOSE p \in DOMAIN u : u[p] = vals[k]]

\* column c of a sequence of rows
column(rows, c) == [k \in 1..Len(rows) |-> rows[k][c]]

\* ------------------------------------------------------------ match_values
\* python index i of an array of n elements as a position: -1 is the last
pos(n, i) == IF i < 0 THEN n + i + 1 ELSE i + 1

\* lines 67-74 for the sorted reference: the pairs, row by row of the query,
\* the neighbour at the insertion index before the one left of it
nearest_pairs(ind_sort, sorted, vec_b, collocation_distance) ==
    LET M == Len(sorted)
        ind(j) == Min(searchsorted(sorted, vec_b[j], "right"), M - 1)
        pair(j, i) ==
            IF within(sorted[pos(M, i)], vec_b[j], collocation_distance)
            THEN << <<ind_sort[pos(M, i)], j>> >>
            ELSE <<>>
        rows[j \in 0..Len(vec_b)] ==
            IF j = 0 THEN <<>>
            ELSE rows[j - 1] \o pair(j, ind(j)) \o pair(j, ind(j) - 1)
    IN  rows[Len(vec_b)]

\* sorted_pairs that returns the positions in the sorted reference
sorted_positions(vec_a, ind_sort, vec_b, collocation_distance) ==
    nearest_pairs([k \in DOMAIN ind_sort |-> k], take(vec_a, ind_sort), vec_b,
                  collocation_distance)

sorted_pairs(vec_a, ind_sort, vec_b, collocation_distance) ==
    nearest_pairs(ind_sort, take(vec_a, ind_sort), vec_b, collocation_distance)

\* Pairs <<i, j>> with vec_a[i] within collocation_distance of vec_b[j].  An
\* empty vec_a with a non-empty query raises IndexError.
match_values(vec_a, vec_b, collocation_distance) ==
    IF Len(vec_a) = 0 /\ Len(vec_b) > 0
    THEN [err |-> "IndexError", indices |-> <<>>]
    ELSE [err |-> "none",
          indices |-> sorted_pairs(vec_a, argsort(vec_a), vec_b, collocation_distance)]

\* ------------------------------------------------------------ merge_arrays
\* lines 105-116, the mapping given.  merged is the returned array; head and
\* tail are the caller's arrays as the call leaves them (the replacement
\* writes in place).
merge_mapped(head, tail, replace, mapping) ==
    LET has == Len(mapping) > 0
        head1 == IF has /\ replace = "B->A"
                 THEN assign(head, column(mapping, 1), take(tail, column(mapping, 2)))
                 ELSE head
        tail1 == IF has /\ replace # "B->A"
                 THEN assign(tail, column(mapping, 2), take(head, column(mapping, 1)))
                 ELSE tail
    IN  [err |-> "none",
         merged |-> head1 \o (IF has THEN np_delete(tail1, Range(column(mapping, 2)))
                              ELSE tail1),
         mapping |-> mapping, head |-> head1, tail |-> tail1]

\* lines 102-103 done: m is what match_values returned
merge_matched(head, tail, replace, m) ==
    IF m.err # "none"
    THEN [err |-> m.err, merged |-> <<>>, mapping |-> <<>>, head |-> head, tail |-> tail]
    ELSE merge_mapped(head, tail, replace, m.indices)

\* merge_arrays(head, tail) with mapping=None
merge_arrays(head, tail, replace, collocation_distance) ==
    merge_matched(head, tail, replace, match_values(head, tail, collocation_distance))

\* ------------------------------------------------------- the drillhole
\* A Drillhole is a record self:
\*   collar, surveys            <<>> for None
\*   vertices                   the 3D points, each twice its coordinates
\*   cells                      pairs of vertex positions
\*   children                   the Data entities in creation order
\*   cost, planning             the two other attributes of a drillhole
\*   modified_attributes        the dirty set of the entity
\*   h5                         what the last finalize wrote to the store
\*   commits                    what every finalize since the start of the
\*                              running add_data call wrote, oldest first
\*   _locations, _deviation     the lookup arrays desurvey keeps, <<>> for None
\* A Data entity is [name, association, has_values, values].

Data(name, association, has_values, values) ==
    [name |-> name, association |-> association,
     has_values |-> has_values, values |-> values]

\* Entity.modified_attributes setter: the attribute joins the dirty set
mark(self, attribute) ==
    [self EXCEPT !.modified_attributes = @ \cup {attribute}]

\* Workspace.finalize: flush the staged arrays and clear the dirty set
finalize(self) ==
    [self EXCEPT !.h5 = [vertices |-> self.vertices, cells |-> self.cells,
                         children |-> self.children],
                 !.commits = Append(@, [vertices |-> self.vertices,
                                        cells |-> self.cells,
                                        children |-> self.children]),
                 !.modified_attributes = {}]

\* Workspace.create_entity(Data, entity={"parent": self, ...}): a new child
create_entity(self, name, association, has_values, values) ==
    [self EXCEPT !.children = Append(@, Data(name, association, has_values, values))]

\* ObjectBase.get_data(name): position of the first child of that name, 0
\* when there is none (the empty list)
get_data(self, name) ==
    IF \E k \in DOMAIN self.children : self.children[k].name = name
    THEN CHOOSE k \in DOMAIN self.children :
            /\ self.children[k].name = name
            /\ \A q \in DOMAIN self.children : self.children[q].name = name => k <= q
    ELSE 0

\* Data.values setter of the first child called name
set_values(self, name, values) ==
    [self EXCEPT !.children[get_data(self, name)] =
        [@ EXCEPT !.has_values = TRUE, !.values = values]]

n_vertices(self) == Len(self.vertices)

n_cells(self) == Len(self.cells)

\* Drillhole.cells setter
set_cells(self, indices) == [mark(self, "cells") EXCEPT !.cells = indices]

\* Points.vertices setter
set_vertices(self, xyz) == [mark(self, "vertices") EXCEPT !.vertices = xyz]

\* Data.check_vector_length: values (None when the entity has none) filled
\* with the missing marker up to the number of vertices or cells of the parent
check_vector_length(self, child) ==
    LET n == IF child.association = "VERTEX" THEN n_vertices(self)
             ELSE IF child.association = "CELL" THEN n_cells(self)
             ELSE Len(child.values)
        values == IF child.has_values THEN child.values ELSE <<>>
    IN  IF Len(values) < n THEN values \o nans(n - Len(values)) ELSE values

\* Drillhole.collar setter (the entity has no trace)
set_collar(self, value) ==
    IF value # <<>>
    THEN [mark(self, "attributes") EXCEPT !.collar = value, !._locations = <<>>]
    ELSE [self EXCEPT !._locations = <<>>]

\* Drillhole.cost setter, value a float
set_cost(self, value) == [self EXCEPT !.cost = value]

PlanningChoices == {"Default", "Ongoing", "Planned", "Completed"}

\* Drillhole.planning setter; any other value fails the assertion and
\* changes nothing
set_planning(self, value) ==
    IF value \in PlanningChoices THEN [self EXCEPT !.planning = value] ELSE self

\* Drillhole.surveys setter
set_surveys(self, value) ==
    IF value # <<>>
    THEN [mark(mark(self, "surveys"), "trace") EXCEPT
            !.surveys = value, !._deviation = <<>>, !._locations = <<>>]
    ELSE [self EXCEPT !._deviation = <<>>, !._locations = <<>>]

\* ---------------------------------------------------------------- desurvey
\* Stations are <<depth, dip, azimuth>> with dip in {-90, 0} and azimuth in
\* {0, 90} degrees, where the direction cosines are integers.
cos_deg(a) == IF a % 360 = 0 THEN 1 ELSE IF a % 360 = 180 THEN -1 ELSE 0

sin_deg(a) == IF a % 360 = 90 THEN 1 ELSE IF a % 360 = 270 THEN -1 ELSE 0

\* Drillhole.surveys getter: the first station repeated at depth 0
surveys(self) ==
    << <<0, self.surveys[1][2], self.surveys[1][3]>> >> \o self.surveys

\* the direction cosine of a station along an axis
dl(station, axis) ==
    IF axis = 1 THEN cos_deg(450 - (station[3] % 360)) * cos_deg(station[2])
    ELSE IF axis = 2 THEN sin_deg(450 - (station[3] % 360)) * cos_deg(station[2])
    ELSE sin_deg(station[2])

\* lengths of the station intervals
lengths(self) ==
    LET S == surveys(self) IN [k \in 1..(Len(S) - 1) |-> S[k + 1][1] - S[k][1]]

\* the arrays deviation_x, _y, _z compute, doubled: dl_in + lengths * ddl / 2
\* with ddl = (dl_out - dl_in) / lengths is (dl_in + dl_out) / 2 on an
\* interval of non-zero length
deviation(self, axis) ==
    LET S == surveys(self)
    IN  [k \in 1..(Len(S) - 1) |-> dl(S[k], axis) + dl(S[k + 1], axis)]

\* Drillhole.deviation_x, _y, _z read: computed when None, then kept
deviations(self) ==
    IF self._deviation = <<>>
    THEN [self EXCEPT !._deviation = [a \in 1..3 |-> deviation(self, a)]]
    ELSE self

\* the array Drillhole.locations computes, doubled:
\* collar + cumsum(r_[0, lengths * deviation]), D the deviations
path(self, D) ==
    LET S == surveys(self)
        L == lengths(self)
        f[k \in 1..Len(S)] ==
            IF k = 1 THEN [a \in 1..3 |-> 2 * self.collar[a]]
            ELSE [a \in 1..3 |-> f[k - 1][a] + L[k - 1] * D[a][k - 1]]
    IN  [k \in 1..Len(S) |-> f[k]]

\* Drillhole.locations read: computed when None, then kept
locations(self) ==
    IF self._locations = <<>>
    THEN [self EXCEPT !._locations = path(self, self._deviation)]
    ELSE self

\* lines 410-424 for one depth, S the stations, L the locations, D the
\* deviations along the three axes
point(S, L, D, d) ==
    LET ind_loc == Max(searchsorted(column(S, 1), d, "left") - 1, 0)
        ind_dev == Min(ind_loc, Len(S) - 1 - 1)
    IN  [a \in 1..3 |-> L[ind_loc + 1][a] + (d - S[ind_loc + 1][1]) * D[a][ind_dev + 1]]

\* lines 410-424, looked the lookup arrays filled in
desurveyed(looked, depths) ==
    [err |-> "none",
     locations |-> [k \in 1..Len(depths) |->
                        point(surveys(looked), looked._locations, looked._deviation,
                              depths[k])],
     self |-> looked]

\* desurvey that stages the vertices
desurvey_staged(self, depths) ==
    IF self.surveys = <<>> \/ self.collar = <<>>
    THEN [err |-> "AssertionError", locations |-> <<>>, self |-> self]
    ELSE desurveyed(mark(locations(deviations(self)), "vertices"), depths)

\* Drillhole.desurvey: one point per depth; self is the entity as the call
\* leaves it
desurvey(self, depths) ==
    IF self.surveys = <<>> \/ self.collar = <<>>
    THEN [err |-> "AssertionError", locations |-> <<>>, self |-> self]
    ELSE desurveyed(locations(deviations(self)), depths)

\* Drillhole.add_vertices: append and return the new positions
add_vertices(self, xyz) ==
    [self |-> set_vertices(self, self.vertices \o xyz),
     indices |-> [k \in 1..Len(xyz) |-> n_vertices(self) + k]]

\* the Data children DEPTH, FROM, TO looked up by name
child(self, name) == self.children[get_data(self, name)]

\* ------------------------------------------------------- validate_log_data
\* What a validate_* call leaves: the exception or "none", the entity, the
\* values array it returns, and the caller's depth or from-to array.
Validated(err, self, values, input) ==
    [err |-> err, self |-> self, values |-> values, input |-> input]

\* first_log that leaves the vertices of before out of DEPTH and the values
first_log_unpadded(self, depth, input_values) ==
    Validated("none", set_values(self, "DEPTH", depth), input_values, depth)

\* lines 464-468: the first data appended, the vertices added
first_log(self, depth, input_values) ==
    Validated("none",
              set_values(self, "DEPTH", nans(n_vertices(self) - Len(depth)) \o depth),
              nans(n_vertices(self) - Len(input_values)) \o input_values,
              depth)

\* line 463, xyz what desurvey returned
first_log_desurveyed(self, depth, input_values, xyz) ==
    IF xyz.err # "none"
    THEN Validated(xyz.err, self, <<>>, depth)
    ELSE first_log(add_vertices(xyz.self, xyz.locations).self, depth, input_values)

\* lines 483-485, xyz what desurvey returned for the unmatched depths
more_log_desurveyed(self, m, values, xyz) ==
    IF xyz.err # "none"
    THEN Validated(xyz.err, self, <<>>, m.tail)
    ELSE Validated("none",
                   finalize(set_values(add_vertices(xyz.self, xyz.locations).self,
                                       "DEPTH", m.merged)),
                   values, m.tail)

\* lines 477-483, m what the merge of DEPTH and depth returned
more_log(self, depth, input_values, m) ==
    IF m.err # "none"
    THEN Validated(m.err, self, <<>>, depth)
    ELSE more_log_desurveyed(
            self, m,
            merge_mapped(nans(n_vertices(self)), input_values, "B->A", m.mapping).merged,
            desurvey(self, np_delete(m.tail, Range(column(m.mapping, 2)))))

\* lines 462-487, the DEPTH entity there
log_data(self, depth, input_values, collocation_distance) ==
    IF ~child(self, "DEPTH").has_values
    THEN first_log_desurveyed(self, depth, input_values, desurvey(self, depth))
    ELSE more_log(self, depth, input_values,
                  merge_arrays(child(self, "DEPTH").values, depth, "A->B",
                               collocation_distance))

validate_log_data(self, depth, input_values, collocation_distance) ==
    IF Len(depth) # Len(input_values)
    THEN Validated("AssertionError", self, <<>>, depth)
    ELSE log_data(IF get_data(self, "DEPTH") = 0
                  THEN create_entity(self, "DEPTH", "VERTEX", FALSE, <<>>)
                  ELSE self,
                  depth, input_values, collocation_distance)

\* -------------------------------------------------- validate_interval_data
\* from_to.flatten(): from and to of each row in turn
flatten(rows) == [p \in 1..(2 * Len(rows)) |-> rows[(p + 1) \div 2][2 - (p % 2)]]

\* reshape((-1, 2))
reshape(flat) == [k \in 1..(Len(flat) \div 2) |-> <<flat[2 * k - 1], flat[2 * k]>>]

\* the rows whose two entries are equal numbers (NaN equals nothing)
equal_rows(col0, col1) ==
    where([k \in DOMAIN col0 |-> col0[k] # NaN /\ col0[k] = col1[k]])

\* lines 505-527: the cells of the first batch, FROM and TO
first_intervals_added(added, flat, from_to, input_values) ==
    Validated("none",
              create_entity(
                  create_entity(
                      set_cells(added.self,
                                reshape(take(added.indices, unique_inverse(flat)))),
                      "FROM", "CELL", TRUE, column(from_to, 1)),
                  "TO", "CELL", TRUE, column(from_to, 2)),
              input_values, from_to)

\* line 505, xyz what desurvey returned for the distinct depths
first_intervals_desurveyed(self, from_to, input_values, xyz) ==
    IF xyz.err # "none"
    THEN Validated(xyz.err, self, <<>>, from_to)
    ELSE first_intervals_added(add_vertices(xyz.self, xyz.locations), flatten(from_to),
                               from_to, input_values)

\* lines 503-527: the first batch, no FROM and no TO yet
first_intervals(self, from_to, input_values) ==
    first_intervals_desurveyed(self, from_to, input_values,
                               desurvey(self, np_unique(flatten(from_to))))

\* np.c_[rows_in, rows_out], which needs as many of the one as of the other
c_(rows_in, rows_out) ==
    IF Len(rows_in) # Len(rows_out)
    THEN [err |-> "ValueError", map |-> <<>>]
    ELSE [err |-> "none", map |-> [k \in 1..Len(rows_in) |-> <<rows_in[k], rows_out[k]>>]]

\* lines 541-552, the segment-level match: existing segment, input interval
cell_map(n_existing, n_input, from_ind, to_ind) ==
    c_(equal_rows(assign(nans(n_existing), column(from_ind, 1), column(from_ind, 2)),
                  assign(nans(n_existing), column(to_ind, 1), column(to_ind, 2))),
       equal_rows(assign(nans(n_input), column(from_ind, 2), column(from_ind, 1)),
                  assign(nans(n_input), column(to_ind, 2), column(to_ind, 1))))

\* lines 572-584: values, FROM, TO and cells merged by the cell map
intervals_merged(self, values, from_m, to_m, new_cells) ==
    Validated("none",
              set_cells(set_values(set_values(self, "FROM", from_m.merged),
                                   "TO", to_m.merged),
                        self.cells \o new_cells),
              values,
              [k \in 1..Len(from_m.tail) |-> <<from_m.tail[k], to_m.tail[k]>>])

\* lines 564-584, added what add_vertices returned for the new depths
intervals_added(added, ind_new, inverse, from_to, input_values, fi, ti, map) ==
    intervals_merged(
        added.self,
        merge_mapped(nans(n_cells(added.self)), input_values, "B->A", map).merged,
        merge_mapped(child(added.self, "FROM").values, column(from_to, 1), "A->B", map),
        merge_mapped(child(added.self, "TO").values, column(from_to, 2), "A->B", map),
        np_delete(
            reshape(
                assign(
                    assign(
                        assign(nans(2 * Len(from_to)), ind_new, take(added.indices, inverse)),
                        [k \in 1..Len(fi) |-> 2 * fi[k][2] - 1],
                        [k \in 1..Len(fi) |-> added.self.cells[fi[k][1]][1]]),
                    [k \in 1..Len(ti) |-> 2 * ti[k][2]],
                    [k \in 1..Len(ti) |-> added.self.cells[ti[k][1]][2]])),
            Range(column(map, 2))))

\* line 565, xyz what desurvey returned for the new depths
intervals_desurveyed(self, ind_new, new_depths, from_to, input_values, fi, ti, map, xyz) ==
    IF xyz.err # "none"
    THEN Validated(xyz.err, self, <<>>, from_to)
    ELSE intervals_added(add_vertices(xyz.self, xyz.locations), ind_new,
                         unique_inverse(new_depths), from_to, input_values, fi, ti, map)

\* lines 555-561, ind_new the flat positions of the endpoints that matched
\* nothing
intervals_new(self, ind_new, new_depths, from_to, input_values, fi, ti, map) ==
    intervals_desurveyed(self, ind_new, new_depths, from_to, input_values, fi, ti, map,
                         desurvey(self, np_unique(new_depths)))

\* lines 549-558, cm what np.c_ returned
intervals_mapped(self, from_to, input_values, fi, ti, cm, ind_new) ==
    IF cm.err # "none"
    THEN Validated(cm.err, self, <<>>, from_to)
    ELSE intervals_new(self, ind_new, take(flatten(from_to), ind_new), from_to,
                       input_values, fi, ti, cm.map)

\* lines 540-558, the two matches done
intervals_matched(self, from_to, input_values, from_ind, to_ind) ==
    IF from_ind.err # "none" THEN Validated(from_ind.err, self, <<>>, from_to)
    ELSE IF to_ind.err # "none" THEN Validated(to_ind.err, self, <<>>, from_to)
    ELSE intervals_mapped(
            self, from_to, input_values, from_ind.indices, to_ind.indices,
            cell_map(Len(child(self, "FROM").values), Len(from_to),
                     from_ind.indices, to_ind.indices),
            where([p \in 1..(2 * Len(from_to)) |->
                      IF p % 2 = 1
                      THEN (p + 1) \div 2 \notin Range(column(from_ind.indices, 2))
                      ELSE p \div 2 \notin Range(column(to_ind.indices, 2))]))

\* lines 528-584: a later batch, FROM and TO exist
more_intervals(self, from_to, input_values, collocation_distance) ==
    intervals_matched(
        self, from_to, input_values,
        match_values(child(self, "FROM").values, column(from_to, 1), collocation_distance),
        match_values(child(self, "TO").values, column(from_to, 2), collocation_distance))

\* is_list: from_to given as a list (np.vtack is no numpy function);
\* columns: from_to.shape[1]
validate_interval_data(self, from_to, is_list, columns, input_values, collocation_distance) ==
    IF is_list THEN Validated("AttributeError", self, <<>>, from_to)
    ELSE IF Len(from_to) # Len(input_values)
    THEN Validated("AssertionError", self, <<>>, from_to)
    ELSE IF columns # 2 THEN Validated("AssertionError", self, <<>>, from_to)
    ELSE IF get_data(self, "FROM") = 0 /\ get_data(self, "TO") = 0
    THEN first_intervals(self, from_to, input_values)
    ELSE more_intervals(self, from_to, input_values, collocation_distance)

\* ------------------------------------------------------------- sort_depths
\* np.all(np.diff(depths) >= 0)
non_decreasing(depths) ==
    \A k \in 1..(Len(depths) - 1) :
        /\ depths[k] # NaN
        /\ depths[k + 1] # NaN
        /\ depths[k + 1] - depths[k] >= 0

\* lines 602-607: the vertices and the cells by sort_ind
resort_geometry(self, sort_ind, key_map) ==
    LET s1 == IF self.vertices # <<>>
              THEN set_vertices(self, take(self.vertices, sort_ind))
              ELSE self
    IN  IF self.cells # <<>>
        THEN set_cells(s1, [k \in DOMAIN self.cells |->
                              <<key_map[self.cells[k][1]], key_map[self.cells[k][2]]>>])
        ELSE s1

\* resort that maps the cells by sort_ind itself
resort_forward(self, sort_ind) ==
    resort_geometry(
        [self EXCEPT !.children =
            [k \in DOMAIN self.children |->
                IF self.children[k].association = "VERTEX"
                THEN [self.children[k] EXCEPT
                        !.has_values = TRUE,
                        !.values = take(check_vector_length(self, self.children[k]),
                                        sort_ind)]
                ELSE self.children[k]]],
        sort_ind, sort_ind)

\* lines 598-607: every per-vertex child, the vertices and the cells by
\* sort_ind
resort(self, sort_ind) ==
    resort_geometry(
        [self EXCEPT !.children =
            [k \in DOMAIN self.children |->
                IF self.children[k].association = "VERTEX"
                THEN [self.children[k] EXCEPT
                        !.has_values = TRUE,
                        !.values = take(check_vector_length(self, self.children[k]),
                                        sort_ind)]
                ELSE self.children[k]]],
        sort_ind, argsort(sort_ind))

\* sort_by that commits without sorting
sort_by_unsorted(self, depths) == finalize(self)

\* lines 594-609, depths the DEPTH values at full length
sort_by(self, depths) ==
    IF ~non_decreasing(depths) THEN finalize(resort(self, argsort(depths)))
    ELSE finalize(self)

sort_depths(self) ==
    IF get_data(self, "DEPTH") # 0
    THEN sort_by(self, check_vector_length(self, child(self, "DEPTH")))
    ELSE finalize(self)

\* ---------------------------------------------------------------- add_data
\* One named entry of the data dictionary, attr: keys are the keys it holds
\* besides "values"; the other fields are read only under their key.
Attr(keys, depth, from_to, is_list, columns, values, collocation_distance, association) ==
    [keys |-> keys, depth |-> depth, from_to |-> from_to, is_list |-> is_list,
     columns |-> columns, values |-> values,
     collocation_distance |-> collocation_distance, association |-> association]

\* lines 375-389: the Data entity of the entry, v what validate_* returned
entry_validated(v, association) ==
    IF v.err # "none" THEN v
    ELSE Validated("none", create_entity(v.self, "data", association, TRUE, v.values),
                   v.values, v.input)

\* lines 352-373
entry(self, attr, collocation_distance) ==
    IF "depth" \in attr.keys
    THEN entry_validated(
            validate_log_data(self, attr.depth, attr.values, collocation_distance),
            "VERTEX")
    ELSE IF "from-to" \in attr.keys
    THEN entry_validated(
            validate_interval_data(self, attr.from_to, attr.is_list, attr.columns,
                                   attr.values, collocation_distance),
            "CELL")
    ELSE IF "association" \notin attr.keys THEN Validated("KeyError", self, <<>>, <<>>)
    ELSE IF attr.association # "OBJECT" THEN Validated("AssertionError", self, <<>>, <<>>)
    ELSE entry_validated(Validated("none", self, attr.values, <<>>), "OBJECT")

\* lines 333-389: one pass of the loop of add_data
ingest(self, attr) ==
    IF "collocation_distance" \in attr.keys
    THEN IF attr.collocation_distance > 0
         THEN entry(self, attr, attr.collocation_distance)
         ELSE Validated("AssertionError", self, <<>>, <<>>)
    ELSE entry(self, attr, DefaultCollocationDistance)

\* What a call of add_data leaves: err is "none" when it returned, else the
\* exception; self the entity; attr the last entry the loop took up, pre the
\* entity when the loop took it up, post when the loop was done with it,
\* values what validate_* returned for it, input its depth or from-to array
\* as the call left it.
Outcome(pre, attr, v) ==
    [err |-> v.err, self |-> v.self, attr |-> attr, pre |-> pre, post |-> v.self,
     values |-> v.values, input |-> v.input]

\* lines 391-393
returned(done) ==
    IF done.err # "none" THEN done
    ELSE [done EXCEPT !.self = finalize(sort_depths(done.self))]

\* line 333: the loop takes up the next entry, unless an exception ended it
next_entry(before, attr) ==
    IF before.err # "none" THEN before
    ELSE Outcome(before.self, attr, ingest(before.self, attr))

\* the loop of add_data over the entries of data, then lines 391-393
added(self, data) ==
    LET f[k \in 1..Len(data)] ==
            IF k = 1 THEN Outcome(self, data[1], ingest(self, data[1]))
            ELSE next_entry(f[k - 1], data[k])
    IN  returned(f[Len(data)])

\* Drillhole.add_data; the record of commits starts with the call
add_data(self, data) == added([self EXCEPT !.commits = <<>>], data)

\* ------------------------------------------------------------- the callers
Depths == 0..MaxDepth

\* the intervals a caller offers: from above to, and no shorter than the
\* default collocation distance
Intervals ==
    {ft \in Depths \X Depths : ft[2] - ft[1] >= DefaultCollocationDistance}

\* the values of a batch of n samples: sample j carries j
Values(n) == [j \in 1..n |-> j]

LogAttr(depth) ==
    Attr({"depth"}, depth, <<>>, FALSE, 2, Values(Len(depth)), 0, "")

IntervalAttr(from_to) ==
    Attr({"from-to"}, <<>>, from_to, FALSE, 2, Values(Len(from_to)), 0, "")

\* entries of one sample that are not a plain log or interval batch
OtherLogAttrs ==
    {[LogAttr(<<0>>) EXCEPT !.values = <<1, 2>>],
     [LogAttr(<<0>>) EXCEPT !.keys = {"depth", "collocation_distance"},
                            !.collocation_distance = 0],
     [LogAttr(<<0>>) EXCEPT !.keys = {"depth", "collocation_distance"},
                            !.collocation_distance = DefaultCollocationDistance]}

OtherIntervalAttrs ==
    {[IntervalAttr(<< <<0, 2>> >>) EXCEPT !.values = <<1, 2>>],
     [IntervalAttr(<< <<0, 2>> >>) EXCEPT !.columns = 3],
     [IntervalAttr(<< <<0, 2>> >>) EXCEPT !.is_list = TRUE],
     [IntervalAttr(<< <<0, 2>> >>) EXCEPT !.keys = {"depth", "from-to"},
                                          !.depth = <<0>>]}

ObjectAttrs ==
    {Attr({}, <<>>, <<>>, FALSE, 2, <<1>>, 0, ""),
     Attr({"association"}, <<>>, <<>>, FALSE, 2, <<1>>, 0, "VERTEX"),
     Attr({"association"}, <<>>, <<>>, FALSE, 2, <<1>>, 0, "OBJECT")}

\* the number of samples an entry offers
Samples(attr) ==
    IF "depth" \in attr.keys THEN Len(attr.depth)
    ELSE IF "from-to" \in attr.keys THEN Len(attr.from_to)
    ELSE 1

Cost(attr) == 1 + Samples(attr)

LogAttrs(c) ==
    {LogAttr(d) : d \in UNION {[1..n -> Depths] : n \in 0..Min(MaxBatch, c - 1)}}
    \cup (IF c >= 2 THEN OtherLogAttrs ELSE {})

IntervalAttrs(c) ==
    {IntervalAttr(ft) :
        ft \in UNION {[1..n -> Intervals] : n \in 0..Min(MaxBatch, c - 1)}}
    \cup (IF c >= 2 THEN OtherIntervalAttrs \cup ObjectAttrs ELSE {})

AllAttrs(c) == LogAttrs(c) \cup IntervalAttrs(c)

DictCost(data) ==
    LET f[k \in 0..Len(data)] == IF k = 0 THEN 0 ELSE f[k - 1] + Cost(data[k])
    IN  f[Len(data)]

CollarChoices == {<<0, 0, 0>>}

SurveyChoices == {<< <<2, -90, 0>> >>, << <<1, -90, 0>>, <<3, 0, 90>> >>}

\* ------------------------------------------------------------------- state
\* dh      the Drillhole entity
\* result  how the last add_data call ended: "none" before the first, "ok"
\*         when it returned, else the exception it raised
\* last    what that call left (see add_data)
\* cost    the budget spent
\* call    the last call of match_values, merge_arrays or desurvey made from
\*         outside the entity: its arguments and what it returned
VARIABLES dh, result, last, cost, call

vars == <<dh, result, last, cost, call>>

NoCall == [op |-> "none"]

NoArrays == [vertices |-> <<>>, cells |-> <<>>, children |-> <<>>]

\* Drillhole.__init__ given collar and surveys (None for a keyword left out),
\* and the commit that ends Drillhole.create
NewDrillhole(collar_kw, surveys_kw) ==
    finalize(set_surveys(set_collar(
        [collar |-> <<>>, surveys |-> <<>>, vertices |-> <<>>, cells |-> <<>>,
         children |-> <<>>, cost |-> 0, planning |-> "Default",
         modified_attributes |-> {}, h5 |-> NoArrays, commits |-> <<>>,
         _locations |-> <<>>, _deviation |-> <<>>],
        collar_kw), surveys_kw))

Init ==
    /\ \E collar_kw \in CollarChoices \cup {<<>>}, surveys_kw \in SurveyChoices \cup {<<>>} :
        /\ dh = NewDrillhole(collar_kw, surveys_kw)
        /\ last = [err |-> "none", self |-> dh, attr |-> LogAttr(<<>>),
                   pre |-> dh, post |-> dh, values |-> <<>>, input |-> <<>>]
    /\ result = "none"
    /\ cost = 0
    /\ call = NoCall

\* a setter call costs one
SetCollar(budget) ==
    /\ cost < budget
    /\ \E value \in CollarChoices : dh' = set_collar(dh, value)
    /\ cost' = cost + 1
    /\ UNCHANGED <<result, last, call>>

SetSurveys(budget) ==
    /\ cost < budget
    /\ \E value \in SurveyChoices : dh' = set_surveys(dh, value)
    /\ cost' = cost + 1
    /\ UNCHANGED <<result, last, call>>

\* the call done, r what it left
Called(r, spent) ==
    /\ dh' = r.self
    /\ result' = IF r.err = "none" THEN "ok" ELSE r.err
    /\ last' = r
    /\ cost' = cost + spent
    /\ UNCHANGED call

Call(data) == Called(add_data(dh, data), DictCost(data))

\* the entries of cost at most c: log entries only, or every kind
Attrs(log_only, c) == IF log_only THEN LogAttrs(c) ELSE AllAttrs(c)

\* add_data with a dictionary of one entry, or of two
AddEntries(log_only, budget) ==
    \/ \E attr \in Attrs(log_only, budget - cost) : Call(<<attr>>)
    \/ \E first \in Attrs(log_only, budget - cost - 1) :
          \E second \in Attrs(log_only, budget - cost - Cost(first)) :
              Call(<<first, second>>)

\* add_data with log, interval and object entries
AddData == AddEntries(FALSE, MaxCost)

\* add_data with log entries
AddLogData == AddEntries(TRUE, MaxLogCost)

Next == SetCollar(MaxCost) \/ SetSurveys(MaxCost) \/ AddData

Spec == Init /\ [][Next]_vars

\* the runs whose every batch is log data
NextLog == SetCollar(MaxLogCost) \/ SetSurveys(MaxLogCost) \/ AddLogData

SpecLog == Init /\ [][NextLog]_vars

\* add_data with log, interval and object entries, in a short run
AddMixedData == AddEntries(FALSE, MaxMixedCost)

\* the short runs of batches of every kind
NextMixed == SetCollar(MaxMixedCost) \/ SetSurveys(MaxMixedCost) \/ AddMixedData

SpecMixed == Init /\ [][NextMixed]_vars

\* ------------------------------------------------------ desurvey, called
\* the arrays of at most n entries, each an entry of values
Arrays(values, n) == UNION {[1..k -> values] : k \in 0..n}

\* the call done, r what it left
Desurveyed(depths, r) ==
    /\ dh' = r.self
    /\ call' = [op |-> "desurvey", depths |-> depths, before |-> dh, after |-> r.self,
                err |-> r.err, locations |-> r.locations]
    /\ cost' = cost + 1
    /\ UNCHANGED <<result, last>>

\* drillhole.desurvey(depths) called by the client
Desurvey ==
    /\ cost < MaxQueryCost
    /\ \E depths \in Arrays(Depths, MaxQueried) : Desurveyed(depths, desurvey(dh, depths))

\* add_data in a run with desurvey calls
AddQueriedData == AddEntries(FALSE, MaxQueryCost)

\* a run ends with its desurvey call
NextQuery ==
    /\ call = NoCall
    /\ \/ SetCollar(MaxQueryCost)
       \/ SetSurveys(MaxQueryCost)
       \/ AddQueriedData
       \/ Desurvey

\* the runs of add_data and setter calls that end with a desurvey call
SpecQuery == Init /\ [][NextQuery]_vars

\* -------------------------------------------------------------- the setters
\* arrays of dtype uint32
CellChoices == {<< <<1, 2>> >>, << <<1, 2>>, <<2, 3>> >>}

\* floats
CostChoices == {1, 2}

\* a call of op, which leaves the entity as after
Set(after) ==
    /\ cost < MaxSetterCost
    /\ dh' = after
    /\ cost' = cost + 1
    /\ UNCHANGED <<result, last, call>>

SetCells == \E indices \in CellChoices : Set(set_cells(dh, indices))

SetCost == \E value \in CostChoices : Set(set_cost(dh, value))

SetPlanning == \E value \in PlanningChoices \cup {"Other"} : Set(set_planning(dh, value))

\* workspace.finalize() called by the client
Commit == Set(finalize(dh))

NextSetters ==
    \/ SetCollar(MaxSetterCost)
    \/ SetSurveys(MaxSetterCost)
    \/ SetCells
    \/ SetCost
    \/ SetPlanning
    \/ Commit

\* the runs of setter calls and commits
SpecSetters == Init /\ [][NextSetters]_vars

\* ------------------------------------------- match_values and merge_arrays
\* a reference array may hold the missing marker, as a padded DEPTH does
Numbers == 0..MaxValue

\* the tolerances: equal values only, or neighbours too
Tolerances == 1..DefaultCollocationDistance

\* no drillhole takes part
InitUtils ==
    /\ dh = NewDrillhole(<<>>, <<>>)
    /\ last = [err |-> "none", self |-> dh, attr |-> LogAttr(<<>>),
               pre |-> dh, post |-> dh, values |-> <<>>, input |-> <<>>]
    /\ result = "none"
    /\ cost = 0
    /\ call = NoCall

\* match_values(vec_a, vec_b, collocation_distance), the one call of a run
Match ==
    /\ call = NoCall
    /\ \E vec_a \in Arrays(Numbers \cup {NaN}, MaxRef), vec_b \in Arrays(Numbers, MaxQuery),
          collocation_distance \in Tolerances :
        call' = [op |-> "match_values", vec_a |-> vec_a, vec_b |-> vec_b,
                 replace |-> "", collocation_distance |-> collocation_distance,
                 out |-> match_values(vec_a, vec_b, collocation_distance)]
    /\ UNCHANGED <<dh, result, last, cost>>

\* merge_arrays(head, tail, replace, collocation_distance=...), the one call
\* of a run
Merge ==
    /\ call = NoCall
    /\ \E head \in Arrays(Numbers \cup {NaN}, MaxHead), tail \in Arrays(Numbers, MaxTail),
          replace \in {"A->B", "B->A"}, collocation_distance \in Tolerances :
        call' = [op |-> "merge_arrays", vec_a |-> head, vec_b |-> tail,
                 replace |-> replace, collocation_distance |-> collocation_distance,
                 out |-> merge_arrays(head, tail, replace, collocation_distance)]
    /\ UNCHANGED <<dh, result, last, cost>>

NextUtils == Match \/ Merge

SpecUtils == InitUtils /\ [][NextUtils]_vars

\* ------------------------------------------------------------------ claims
\* the values of the child called name, empty when there is no such child or
\* it has no values
array(self, name) ==
    IF get_data(self, name) = 0 THEN <<>>
    ELSE IF child(self, name).has_values THEN child(self, name).values
    ELSE <<>>

\* add_data returned, and the entity has collar and surveys
Returned == result = "ok" /\ dh.collar # <<>> /\ dh.surveys # <<>>

\* every entry of cells is a position of vertices
cells_in_range(self) ==
    \A k \in DOMAIN self.cells :
        /\ self.cells[k][1] \in 1..n_vertices(self)
        /\ self.cells[k][2] \in 1..n_vertices(self)

\* C1: after any sequence of log ingestions on a drillhole with collar and
\* surveys, when add_data returns, DEPTH is non-decreasing, there are as
\* many vertices as DEPTH entries, and every entry of cells is a vertex
\* index.
C1_SortInvariant ==
    Returned =>
        /\ non_decreasing(array(dh, "DEPTH"))
        /\ n_vertices(dh) = Len(array(dh, "DEPTH"))
        /\ cells_in_range(dh)

\* C1 happens: the last batch left DEPTH out of order, add_data sorted it
C1_Witness ==
    /\ Returned
    /\ "depth" \in last.attr.keys
    /\ array(last.pre, "DEPTH") # <<>>
    /\ Len(array(dh, "DEPTH")) >= 3
    /\ ~non_decreasing(array(last.post, "DEPTH"))

\* C2: when add_data returns, every per-vertex data array has as many
\* entries as there are vertices and every per-cell data array as many as
\* there are cells, fields of earlier batches included.
C2_ArrayLengths ==
    result = "ok" =>
        \A k \in DOMAIN dh.children :
            /\ dh.children[k].association = "VERTEX"
                => Len(dh.children[k].values) = n_vertices(dh)
            /\ dh.children[k].association = "CELL"
                => Len(dh.children[k].values) = n_cells(dh)

\* the tolerance of an entry: its own, or the default of the entity
tolerance(attr) ==
    IF "collocation_distance" \in attr.keys THEN attr.collocation_distance
    ELSE DefaultCollocationDistance

\* the depths that name a vertex, as <<vertex, depth>>: DEPTH at the vertex,
\* FROM and TO at the two ends of a segment
vertex_depths(self) ==
    LET DEPTH == array(self, "DEPTH")
        FROM == array(self, "FROM")
        TO == array(self, "TO")
    IN  {<<k, DEPTH[k]>> : k \in {q \in DOMAIN DEPTH : DEPTH[q] # NaN}}
        \cup {<<self.cells[k][1], FROM[k]>> : k \in DOMAIN self.cells \cap DOMAIN FROM}
        \cup {<<self.cells[k][2], TO[k]>> : k \in DOMAIN self.cells \cap DOMAIN TO}

\* C3: when add_data returns, two depths closer than the tolerance never
\* name two different vertices, whether they came in one batch or in two,
\* as log depths or as interval ends.
C3_CollocationUnique ==
    result = "ok" =>
        \A a \in vertex_depths(dh) : \A b \in vertex_depths(dh) :
            within(a[2], b[2], DefaultCollocationDistance) => a[1] = b[1]

\* a log batch that passes validation
ValidLog(attr) ==
    /\ "depth" \in attr.keys
    /\ Len(attr.values) = Len(attr.depth)
    /\ tolerance(attr) > 0

\* the input depths of attr with no entry of DEPTH within the tolerance
unmatched(DEPTH, attr) ==
    where([j \in DOMAIN attr.depth |->
              \A k \in DOMAIN DEPTH :
                  ~within(DEPTH[k], attr.depth[j], tolerance(attr))])

\* the input samples the match of DEPTH and the input depths pairs with k
matched(DEPTH, attr, k) ==
    {j \in DOMAIN attr.depth :
        <<k, j>> \in Range(match_values(DEPTH, attr.depth, tolerance(attr)).indices)}

\* the last entry was a valid log batch for an entity whose DEPTH had values
LogIntoDepth ==
    /\ ValidLog(last.attr)
    /\ array(last.pre, "DEPTH") # <<>>
    /\ last.pre.collar # <<>>
    /\ last.pre.surveys # <<>>

\* C4: a log batch into existing DEPTH adds one vertex per input depth that
\* has no DEPTH entry within the tolerance, keeps every DEPTH entry, and
\* returns values aligned with DEPTH by the one match: at a matched vertex
\* an input value matched to it, NaN at the other old vertices, the
\* unmatched input values in input order at the appended ones.
C4_LogMerge ==
    LogIntoDepth =>
        LET before == array(last.pre, "DEPTH")
            after == array(last.post, "DEPTH")
            new == unmatched(before, last.attr)
        IN  /\ last.err = "none"
            /\ n_vertices(last.post) = n_vertices(last.pre) + Len(new)
            /\ Len(after) = Len(before) + Len(new)
            /\ SubSeq(after, 1, Len(before)) = before
            /\ Len(last.values) = Len(after)
            /\ \A k \in DOMAIN after \cap DOMAIN last.values :
                IF k > Len(before)
                THEN last.values[k] = last.attr.values[new[k - Len(before)]]
                ELSE IF matched(before, last.attr, k) # {}
                THEN \E j \in matched(before, last.attr, k) :
                        last.values[k] = last.attr.values[j]
                ELSE last.values[k] = NaN

\* an interval batch that passes validation
ValidIntervals(attr) ==
    /\ "from-to" \in attr.keys
    /\ "depth" \notin attr.keys
    /\ ~attr.is_list
    /\ attr.columns = 2
    /\ Len(attr.values) = Len(attr.from_to)
    /\ tolerance(attr) > 0

\* no two input intervals of attr are within the tolerance at both ends
distinct_intervals(attr) ==
    \A i \in DOMAIN attr.from_to : \A j \in DOMAIN attr.from_to :
        (/\ within(attr.from_to[i][1], attr.from_to[j][1], tolerance(attr))
         /\ within(attr.from_to[i][2], attr.from_to[j][2], tolerance(attr))) => i = j

\* the last entry was a valid batch of distinct intervals for an entity that
\* had FROM and TO
IntervalsIntoSegments ==
    /\ ValidIntervals(last.attr)
    /\ distinct_intervals(last.attr)
    /\ array(last.pre, "FROM") # <<>>
    /\ Len(array(last.pre, "TO")) = Len(array(last.pre, "FROM"))
    /\ last.pre.collar # <<>>
    /\ last.pre.surveys # <<>>

\* the segments of self whose FROM is within the tolerance of depth
from_matches(self, depth, eps) ==
    {k \in DOMAIN array(self, "FROM") : within(array(self, "FROM")[k], depth, eps)}

\* the segments of self whose TO is within the tolerance of depth
to_matches(self, depth, eps) ==
    {k \in DOMAIN array(self, "TO") : within(array(self, "TO")[k], depth, eps)}

\* the input intervals of attr that no one segment of self matches at both
\* ends
new_intervals(self, attr) ==
    where([j \in DOMAIN attr.from_to |->
              from_matches(self, attr.from_to[j][1], tolerance(attr))
                  \cap to_matches(self, attr.from_to[j][2], tolerance(attr)) = {}])

\* C5: an interval batch into existing FROM and TO returns, reuses a segment
\* for every input interval that one segment matches at both ends, and adds
\* exactly one row to cells, FROM and TO for every other input interval.
C5_IntervalReuse ==
    IntervalsIntoSegments =>
        LET grown == n_cells(last.pre) + Len(new_intervals(last.pre, last.attr))
        IN  /\ last.err = "none"
            /\ n_cells(last.post) = grown
            /\ Len(array(last.post, "FROM")) = grown
            /\ Len(array(last.post, "TO")) = grown

\* the vertex is where desurvey puts a depth within the tolerance of depth
at_depth(self, vertex, depth, eps) ==
    /\ vertex \in DOMAIN self.vertices
    /\ \E d \in Depths :
        /\ within(d, depth, eps)
        /\ self.vertices[vertex] = desurvey(self, <<d>>).locations[1]

\* every vertex of self is where the collar and surveys of self put a depth
surveyed(self) ==
    \A v \in DOMAIN self.vertices : at_depth(self, v, 0, MaxDepth + 1)

\* C6: after an interval batch into existing FROM and TO, every input
\* interval has a segment that holds its value in the returned values, its
\* bounds in FROM and TO within the tolerance, and in cells the vertices at
\* its two depths, whatever the order of the intervals in the batch.
C6_IntervalAlignment ==
    (IntervalsIntoSegments /\ last.err = "none" /\ surveyed(last.post)) =>
        \A j \in DOMAIN last.attr.from_to :
            \E k \in DOMAIN last.post.cells :
                /\ k \in DOMAIN last.values
                /\ last.values[k] = last.attr.values[j]
                /\ k \in from_matches(last.post, last.attr.from_to[j][1], tolerance(last.attr))
                /\ k \in to_matches(last.post, last.attr.from_to[j][2], tolerance(last.attr))
                /\ at_depth(last.post, last.post.cells[k][1], last.attr.from_to[j][1],
                            tolerance(last.attr))
                /\ at_depth(last.post, last.post.cells[k][2], last.attr.from_to[j][2],
                            tolerance(last.attr))

\* the depths of the ends of the input intervals that match nothing
unmatched_ends(self, attr) ==
    {attr.from_to[j][1] : j \in {q \in DOMAIN attr.from_to :
        from_matches(self, attr.from_to[q][1], tolerance(attr)) = {}}}
    \cup {attr.from_to[j][2] : j \in {q \in DOMAIN attr.from_to :
        to_matches(self, attr.from_to[q][2], tolerance(attr)) = {}}}

\* input interval j matches a segment at one end and no segment at both
partial(self, attr, j) ==
    /\ from_matches(self, attr.from_to[j][1], tolerance(attr))
       \cup to_matches(self, attr.from_to[j][2], tolerance(attr)) # {}
    /\ from_matches(self, attr.from_to[j][1], tolerance(attr))
       \cap to_matches(self, attr.from_to[j][2], tolerance(attr)) = {}

\* the end of the appended row: the vertex of a matched segment at that end,
\* or a vertex appended in this batch at the depth
end_reused(before, after, matches, end, new_end, depth, eps) ==
    IF matches # {}
    THEN \E k \in matches : new_end = before.cells[k][end]
    ELSE /\ new_end > n_vertices(before)
         /\ at_depth(after, new_end, depth, 1)

\* C7: an interval batch with an interval that matches a segment at one end
\* only returns, appends exactly one segment for every interval that is no
\* full match, with the vertex of the matched segment at a matched end and a
\* newly desurveyed vertex at an end that matched nothing, adds vertices for
\* the unmatched ends only, and every appended cells entry is a vertex index.
C7_PartialOverlap ==
    (/\ IntervalsIntoSegments
     /\ surveyed(last.pre)
     /\ \E j \in DOMAIN last.attr.from_to : partial(last.pre, last.attr, j)) =>
        LET before == last.pre
            after == last.post
            attr == last.attr
            new == new_intervals(before, attr)
        IN  /\ last.err = "none"
            /\ n_cells(after) = n_cells(before) + Len(new)
            /\ SubSeq(after.cells, 1, n_cells(before)) = before.cells
            /\ n_vertices(after)
                = n_vertices(before) + Cardinality(unmatched_ends(before, attr))
            /\ \A q \in DOMAIN new :
                /\ n_cells(before) + q \in DOMAIN after.cells
                /\ after.cells[n_cells(before) + q][1] \in 1..n_vertices(after)
                /\ after.cells[n_cells(before) + q][2] \in 1..n_vertices(after)
                /\ end_reused(before, after,
                              from_matches(before, attr.from_to[new[q]][1], tolerance(attr)),
                              1,
                              after.cells[n_cells(before) + q][1],
                              attr.from_to[new[q]][1], tolerance(attr))
                /\ end_reused(before, after,
                              to_matches(before, attr.from_to[new[q]][2], tolerance(attr)),
                              2,
                              after.cells[n_cells(before) + q][2],
                              attr.from_to[new[q]][2], tolerance(attr))

\* the arrays that ingestion maintains
arrays(self) ==
    <<self.vertices, self.cells, array(self, "DEPTH"), array(self, "FROM"),
      array(self, "TO")>>

\* merging tail into head twice gives what merging it once gives
merge_twice(head, tail, once, eps) ==
    once.err = "none" =>
        /\ merge_arrays(once.merged, tail, "A->B", eps).err = "none"
        /\ merge_arrays(once.merged, tail, "A->B", eps).merged = once.merged

\* the same batch once more
again(self, attr) == add_data(self, <<attr>>)

\* C8: after add_data returned, ingesting its last batch once more returns
\* and leaves the vertices, cells, DEPTH, FROM and TO as they are; and the
\* batch depths merged into DEPTH twice give what merging them once gives.
C8_Idempotent ==
    (/\ result = "ok"
     /\ dh.collar # <<>>
     /\ dh.surveys # <<>>
     /\ (ValidLog(last.attr) \/ ValidIntervals(last.attr))) =>
        /\ again(dh, last.attr).err = "none"
        /\ arrays(again(dh, last.attr).self) = arrays(dh)
        /\ ValidLog(last.attr) =>
            merge_twice(array(last.pre, "DEPTH"), last.attr.depth,
                        merge_arrays(array(last.pre, "DEPTH"), last.attr.depth, "A->B",
                                     tolerance(last.attr)),
                        tolerance(last.attr))

\* the failures of validation: an assertion of add_data, validate_log_data,
\* validate_interval_data or desurvey, or the association missing
ValidationFailure == result \in {"AssertionError", "KeyError"}

\* C9: after a validation failure the vertices, the cells, the child data
\* entities and their values are what they were when the failing batch was
\* taken up.
C9_FailBeforeMutation ==
    ValidationFailure =>
        /\ dh.vertices = last.pre.vertices
        /\ dh.cells = last.pre.cells
        /\ dh.children = last.pre.children

\* the entry holds both depth and from-to, or neither and no OBJECT
\* association
BadShape(attr) ==
    \/ {"depth", "from-to"} \subseteq attr.keys
    \/ /\ attr.keys \cap {"depth", "from-to"} = {}
       /\ ~("association" \in attr.keys /\ attr.association = "OBJECT")

\* C10: on an entity with collar and surveys, a batch with both depth and
\* from-to, and a batch with neither and no OBJECT association, fails and
\* ingests nothing.
C10_ExactlyOne ==
    (/\ result # "none"
     /\ BadShape(last.attr)
     /\ last.pre.collar # <<>>
     /\ last.pre.surveys # <<>>) =>
        /\ last.err # "none"
        /\ last.post.vertices = last.pre.vertices
        /\ last.post.cells = last.pre.cells
        /\ last.post.children = last.pre.children

\* the value of every per-vertex child at every vertex, the missing marker
\* where the child holds none
per_vertex(self) ==
    [k \in DOMAIN self.children |->
        IF self.children[k].association = "VERTEX"
        THEN check_vector_length(self, self.children[k])
        ELSE nans(n_vertices(self))]

\* what vertex v carries: its point and its value in every per-vertex child,
\* DEPTH among them
row(self, v) ==
    <<self.vertices[v], [k \in DOMAIN self.children |-> per_vertex(self)[k][v]]>>

\* the vertices of after are the vertices of before in another order, each
\* with what it carried
same_rows(before, after) ==
    /\ n_vertices(after) = n_vertices(before)
    /\ DOMAIN after.children = DOMAIN before.children
    /\ \A v \in DOMAIN after.vertices :
        Cardinality({u \in DOMAIN after.vertices : row(after, u) = row(after, v)})
            = Cardinality({u \in DOMAIN before.vertices : row(before, u) = row(after, v)})

\* every segment of after joins the vertices it joined in before
same_segments(before, after) ==
    /\ n_cells(after) = n_cells(before)
    /\ cells_in_range(before)
    /\ cells_in_range(after)
    /\ \A c \in DOMAIN after.cells : \A end \in 1..2 :
        row(after, after.cells[c][end]) = row(before, before.cells[c][end])

\* the numbers of depths ascend and the missing markers come after them
missing_last(depths) ==
    \A k \in 1..(Len(depths) - 1) :
        \/ depths[k + 1] = NaN
        \/ depths[k] # NaN /\ depths[k] <= depths[k + 1]

\* add_data returned and its sort_depths pass found a DEPTH entity
Sorted == result = "ok" /\ get_data(last.post, "DEPTH") # 0

\* DEPTH of self at full length
full_depth(self) == check_vector_length(self, child(self, "DEPTH"))

\* the pass of sort_depths from before to after moved the vertices, their
\* values and the segments together, or nothing when DEPTH was in order
one_permutation(before, after) ==
    IF ~non_decreasing(full_depth(before))
    THEN /\ same_rows(before, after)
         /\ same_segments(before, after)
    ELSE /\ after.vertices = before.vertices
         /\ after.cells = before.cells
         /\ after.children = before.children

\* C11 as stated: the sort_depths pass of add_data leaves DEPTH
\* non-decreasing, every vertex with the point, DEPTH value and per-vertex
\* values it had, every segment between the two vertices it joined, and
\* changes nothing when DEPTH was non-decreasing already.
C11_AsStated ==
    Sorted =>
        /\ non_decreasing(full_depth(dh))
        /\ one_permutation(last.post, dh)

\* C11: the sort_depths pass of add_data leaves the DEPTH values ascending
\* with the vertices that have no DEPTH value after them, every vertex with
\* the point, DEPTH value and per-vertex values it had, every segment
\* between the two vertices it joined, and changes nothing when DEPTH was
\* non-decreasing already.
C11_SortPermutation ==
    Sorted =>
        /\ missing_last(full_depth(dh))
        /\ one_permutation(last.post, dh)

\* C11 happens: the pass moved three vertices or more, and a segment with
\* them
C11_Witness ==
    /\ Sorted
    /\ ~non_decreasing(full_depth(last.post))
    /\ n_vertices(dh) >= 3
    /\ \E c \in DOMAIN dh.cells : dh.cells[c] # last.post.cells[c]
    /\ \E v \in DOMAIN dh.vertices : dh.vertices[v] # last.post.vertices[v]

\* input depth j of the log batch attr is kept in self: a vertex has it in
\* DEPTH and its value in values
depth_kept(self, attr, values, j) ==
    \E k \in DOMAIN self.vertices :
        /\ k \in DOMAIN array(self, "DEPTH")
        /\ array(self, "DEPTH")[k] = attr.depth[j]
        /\ k \in DOMAIN values
        /\ values[k] = attr.values[j]

\* input interval j of attr is kept in self: a row of cells has its bounds
\* in FROM and TO and its value in values
interval_kept(self, attr, values, j) ==
    \E k \in DOMAIN self.cells :
        /\ k \in DOMAIN array(self, "FROM")
        /\ k \in DOMAIN array(self, "TO")
        /\ array(self, "FROM")[k] = attr.from_to[j][1]
        /\ array(self, "TO")[k] = attr.from_to[j][2]
        /\ k \in DOMAIN values
        /\ values[k] = attr.values[j]

FirstLog ==
    /\ result # "none"
    /\ ValidLog(last.attr)
    /\ last.pre.collar # <<>>
    /\ last.pre.surveys # <<>>
    /\ \/ get_data(last.pre, "DEPTH") = 0
       \/ ~child(last.pre, "DEPTH").has_values

\* the batch returned and appended one vertex per input depth, in input
\* order, each where desurvey puts its depth
one_vertex_per_depth(before, after, attr) ==
    /\ last.err = "none"
    /\ n_vertices(after) = n_vertices(before) + Len(attr.depth)
    /\ SubSeq(after.vertices, 1, n_vertices(before)) = before.vertices
    /\ \A j \in DOMAIN attr.depth :
        after.vertices[n_vertices(before) + j]
            = desurvey(before, <<attr.depth[j]>>).locations[1]

\* C13 as stated: a log batch into an entity without DEPTH array adds one
\* vertex per input depth in input order, creates DEPTH equal to the input
\* depths and returns the input values.
C13_AsStated ==
    FirstLog =>
        /\ one_vertex_per_depth(last.pre, last.post, last.attr)
        /\ array(last.post, "DEPTH") = last.attr.depth
        /\ last.values = last.attr.values

\* C13: a log batch into an entity without DEPTH array adds one vertex per
\* input depth in input order, and creates DEPTH as the input depths and
\* returns the input values, each after one missing marker for every vertex
\* that was there before.
C13_FirstLog ==
    FirstLog =>
        /\ one_vertex_per_depth(last.pre, last.post, last.attr)
        /\ child(last.post, "DEPTH").has_values
        /\ child(last.post, "DEPTH").values
            = nans(n_vertices(last.pre)) \o last.attr.depth
        /\ last.values = nans(n_vertices(last.pre)) \o last.attr.values

\* C13 happens: a first log batch of some depth into an entity whose
\* interval data had created vertices
C13_Witness ==
    /\ FirstLog
    /\ result = "ok"
    /\ n_cells(last.pre) > 0
    /\ n_vertices(last.pre) > 0
    /\ Len(last.attr.depth) > 0

\* the pairs a call of match_values returned, none when it raised
pairs == IF call.op = "match_values" THEN Range(call.out.indices) ELSE {}

\* some entry of the reference is within the tolerance of query entry j
in_reach(j) ==
    \E i \in DOMAIN call.vec_a :
        within(call.vec_a[i], call.vec_b[j], call.collocation_distance)

\* C14: every pair match_values returns is an index of vec_a as given and
\* an index of vec_b whose values are closer than collocation_distance, and
\* a query index is in some pair exactly when some reference value is
\* within collocation_distance of its value, in whatever order vec_a is.
C14_MatchSoundComplete ==
    call.op = "match_values" =>
        /\ \A p \in pairs :
            /\ p[1] \in DOMAIN call.vec_a
            /\ p[2] \in DOMAIN call.vec_b
            /\ within(call.vec_a[p[1]], call.vec_b[p[2]], call.collocation_distance)
        /\ \A j \in DOMAIN call.vec_b : (\E p \in pairs : p[2] = j) <=> in_reach(j)

\* C14 happens: a reference of three values out of order, the query matched
\* to an entry that sorting moves
C14_Witness ==
    /\ call.op = "match_values"
    /\ Len(call.vec_a) = 3
    /\ ~non_decreasing(call.vec_a)
    /\ \E p \in pairs : argsort(call.vec_a)[p[1]] # p[1]
    /\ \E i \in DOMAIN call.vec_a :
        ~within(call.vec_a[i], call.vec_b[1], call.collocation_distance)

\* C15: match_values with an empty reference, an empty query or no
\* reference value within the tolerance of a query value returns, and
\* returns no pair.
C15_EmptyNeverRaises ==
    (/\ call.op = "match_values"
     /\ \/ call.vec_a = <<>>
        \/ call.vec_b = <<>>
        \/ \A j \in DOMAIN call.vec_b : ~in_reach(j)) =>
        /\ call.out.err = "none"
        /\ call.out.indices = <<>>

\* the tail positions of a merge_arrays call with no head value within the
\* tolerance, ascending
unmatched_tail ==
    where([j \in DOMAIN call.vec_b |-> ~in_reach(j)])

\* the tail positions the mapping of a merge_arrays call pairs with head
\* position i
absorbed(i) ==
    {p[2] : p \in {q \in Range(call.out.mapping) : q[1] = i}}

\* C16: merge_arrays returns head followed by the tail entries that matched
\* nothing in their order, len(head) plus their number long; with the
\* default replace every head entry is kept, with replace "B->A" a matched
\* head entry holds a tail value matched to it and the others are kept.
C16_MergeShape ==
    call.op = "merge_arrays" =>
        LET head == call.vec_a
            tail == call.vec_b
            merged == call.out.merged
        IN  /\ call.out.err = "none"
            /\ Len(merged) = Len(head) + Len(unmatched_tail)
            /\ SubSeq(merged, Len(head) + 1, Len(merged)) = take(tail, unmatched_tail)
            /\ \A i \in DOMAIN head :
                IF call.replace = "B->A" /\ absorbed(i) # {}
                THEN \E j \in absorbed(i) : merged[i] = tail[j]
                ELSE merged[i] = head[i]

\* the name under which a persisted attribute is staged: cells and surveys
\* under their own, collar with the other attributes of the entity
staged_as(attribute) ==
    IF attribute \in {"cells", "surveys"} THEN attribute ELSE "attributes"

\* C17: a step that changes cells, collar, surveys, cost or planning of the
\* entity leaves the name the attribute is staged under in
\* modified_attributes.
C17_SettersMarkDirty ==
    [][\A attribute \in {"cells", "collar", "surveys", "cost", "planning"} :
            dh'[attribute] # dh[attribute]
                => staged_as(attribute) \in dh'.modified_attributes]_vars

\* what desurvey must leave alone
framed(self) ==
    <<self.vertices, self.cells, self.children, self.collar, self.surveys,
      self.modified_attributes>>

\* C18: a desurvey call fails exactly when collar or surveys is absent,
\* else returns one 3D point for every depth asked, and either way leaves
\* vertices, cells, the data entities and their arrays, collar, surveys and
\* modified_attributes as they were.
C18_DesurveyPure ==
    call.op = "desurvey" =>
        /\ call.err = (IF call.before.collar = <<>> \/ call.before.surveys = <<>>
                       THEN "AssertionError" ELSE "none")
        /\ call.err = "none" =>
            /\ Len(call.locations) = Len(call.depths)
            /\ \A k \in DOMAIN call.locations : DOMAIN call.locations[k] = 1..3
        /\ framed(call.after) = framed(call.before)

\* C18 happens: desurvey of depth 0 and of a depth beyond the last station,
\* on an entity that holds data, filled the lookup arrays
C18_Witness ==
    /\ call.op = "desurvey"
    /\ call.err = "none"
    /\ 0 \in Range(call.depths)
    /\ \E k \in DOMAIN call.depths :
        call.depths[k] > call.before.surveys[Len(call.before.surveys)][1]
    /\ call.before.children # <<>>
    /\ call.after._locations # call.before._locations

\* what a commit wrote has DEPTH in order and every per-vertex array as long
\* as the vertices
consistent(written) ==
    /\ non_decreasing(array(written, "DEPTH"))
    /\ \A k \in DOMAIN written.children :
        written.children[k].association = "VERTEX"
            => /\ written.children[k].has_values
               /\ Len(written.children[k].values) = Len(written.vertices)

\* C20: every commit made during an add_data call, the one inside
\* validate_log_data, the one ending sort_depths and the final one, writes
\* DEPTH non-decreasing and every per-vertex data array as long as the
\* vertices.
C20_ConsistentCommits ==
    result # "none" =>
        \A c \in DOMAIN dh.commits : consistent(dh.commits[c])

\* the depth or from-to array the caller gave in the last entry taken up
given(attr) ==
    IF "depth" \in attr.keys THEN attr.depth
    ELSE IF "from-to" \in attr.keys THEN attr.from_to
    ELSE <<>>

\* C21: after add_data returns, the depth array or the from-to array the
\* caller passed in holds the values it held before the call, also where an
\* entry matched an existing depth or segment within tolerance.
C21_InputsUnmodified ==
    result = "ok" => last.input = given(last.attr)

====
